---- MODULE Spec2Model ----
(***************************************************************************)
(* BluePrint eDNA backend: the TaxonomicAssignment and BiodiversityMetrics *)
(* tables of blueprint_backend/core/models.py and the Celery task          *)
(* calculate_biodiversity_metrics of blueprint_backend/core/tasks.py.      *)
(*                                                                         *)
(* Numbers.  Python's true division and the float fields are kept as exact *)
(* rationals [num, den] in lowest terms.  The Shannon index needs ln and   *)
(* is kept as the exact expression it is:  -SUM p*ln(p)  over the bag of   *)
(* proportions p the loop added up (field "terms"), or NaN.                *)
(*                                                                         *)
(* Spec is the tables as their writers and the task change them;           *)
(* SpecCompute is the task applied to every table of rows it may be given; *)
(* SpecPipeline is process_sequence_file run by the Celery workers, with   *)
(* the metrics task it queues; SpecTwoRuns is one worker running it again  *)
(* and again, the run before kept for comparison; SpecMetricsRace is two   *)
(* metrics tasks of one sample at the grain of their database statements.  *)
(* SpecInterleaved is SpecPipeline on tables only the workers wrote to;    *)
(* SpecAnalysis is run_analysis_pipeline with the tasks it sends to the    *)
(* workers; SpecExtractor is Docs/Analysis/extract_blast_databases.py, the *)
(* DatabaseExtractor working its jobs through a thread pool.               *)
(***************************************************************************)
EXTENDS Integers, Sequences, FiniteSets, TLC

\* ---------------------------------------------------------------- bounds
\* rows the writers add to one sample
MaxAssignments == 2
\* rows of a sample handed to the metrics computation as a whole
MaxRows == 3
\* largest read_count a writer stores
MaxReads == 2
\* most rows one process_sequence_file run creates: random.randint(50, 200),
\* scaled down to 1 .. MaxCreated
MaxCreated == 2
\* most metrics tasks queued or about to be queued
MaxQueued == 2
\* the last value datetime.now() returns to run_analysis_pipeline
MaxTime == 4
\* tar.gz files in the extractor's base_dir
MaxJobs == 3
\* largest max_concurrent a DatabaseExtractor is constructed with
MaxConcurrent == 2

\* ------------------------------------------------------- nullable strings
\* A CharField(null=True, blank=True): None, or a string (possibly "").
None == {}

Some(s) == {s}

Value(x) == CHOOSE s \in x : TRUE

\* Python truthiness of a nullable string: None and "" are falsy.
Truthy(x) == x # None /\ x # Some("")

\* f"{x}" : None prints as "None".
Format(x) == IF x = None THEN "None" ELSE Value(x)

\* a or b, on plain strings
StrOr(a, b) == IF a # "" THEN a ELSE b

\* ------------------------------------------------------------- rationals
Abs(n) == IF n < 0 THEN -n ELSE n

RECURSIVE GCD(_, _)
GCD(a, b) == IF b = 0 THEN a ELSE GCD(b, a % b)

\* n / d for d # 0, in lowest terms with a positive denominator
Rat(n, d) ==
    LET g == GCD(Abs(n), Abs(d))
        s == IF d < 0 THEN -1 ELSE 1
    IN  [num |-> (s * n) \div g, den |-> Abs(d) \div g]

RatInt(n) == [num |-> n, den |-> 1]

RatLe(a, b) == a.num * b.den <= b.num * a.den

RatLt(a, b) == a.num * b.den < b.num * a.den

RatAdd(a, b) == Rat(a.num * b.den + b.num * a.den, a.den * b.den)

RECURSIVE SumOver(_, _)
SumOver(f, S) ==
    IF S = {} THEN 0
    ELSE LET x == CHOOSE y \in S : TRUE IN f[x] + SumOver(f, S \ {x})

\* ------------------------------------------------------------ the tables
\* Sample rows that exist; SampleIds also holds an id with no row.
Sample == {"s1"}

SampleIds == {"s1", "s2"}

\* Taxa a writer stores: species, genus, phylum, confidence, novelty.
\* Rows 1-3 are named to species or genus; row 4 carries no names (NULL);
\* row 5 is the seeding script's ('Chaetognatha', ..., genus '', species '').
TaxaRows == <<
    [species |-> Some("Globigerina bulloides"), genus |-> Some("Globigerina"),
     phylum |-> Some("Foraminifera"), confidence_level |-> "high",
     confidence_score |-> Rat(95, 100), is_novel_taxon |-> FALSE],
    [species |-> Some("Caenorhabditis elegans"), genus |-> Some("Caenorhabditis"),
     phylum |-> Some("Nematoda"), confidence_level |-> "medium",
     confidence_score |-> Rat(80, 100), is_novel_taxon |-> FALSE],
    [species |-> None, genus |-> Some("Fungia"),
     phylum |-> Some("Cnidaria"), confidence_level |-> "low",
     confidence_score |-> Rat(60, 100), is_novel_taxon |-> TRUE],
    [species |-> None, genus |-> None,
     phylum |-> Some("Ascomycota"), confidence_level |-> "uncertain",
     confidence_score |-> Rat(30, 100), is_novel_taxon |-> TRUE],
    [species |-> Some(""), genus |-> Some(""),
     phylum |-> Some("Chaetognatha"), confidence_level |-> "uncertain",
     confidence_score |-> Rat(10, 100), is_novel_taxon |-> FALSE] >>

\* read_count = models.IntegerField(default=1): any integer is storable.
ReadCounts == (-1) .. MaxReads

VARIABLES
    taxonomic_assignments,  \* table TaxonomicAssignment, rows in Meta.ordering
    biodiversity_metrics,   \* table BiodiversityMetrics
    result,                 \* what the last task call returned
    runs,                   \* worker -> its process_sequence_file call
    celery_queue,           \* calculate_biodiversity_metrics.delay(...) not yet run
    previous_run,           \* input and rows of the last run that succeeded
    metrics_calls,          \* worker -> its metrics task, statement by statement
    analysis_pipeline,      \* the row of table AnalysisPipeline
    pipeline_call,          \* the run_analysis_pipeline call in progress
    task_queue,             \* process and email tasks sent with .delay, not yet taken
    now,                    \* what datetime.now() returns next
    files,                  \* the files in the extractor's base_dir
    jobs,                   \* extraction job -> where it stands in the pool
    extractor,              \* the DatabaseExtractor object and its extract_all call
    success_list,           \* of extract_all
    failed_list             \* of extract_all

\* the variables of run_analysis_pipeline
pipeline_vars == <<analysis_pipeline, pipeline_call, task_queue, now>>

\* the variables of the database extractor
extractor_vars == <<files, jobs, extractor, success_list, failed_list>>

\* what the tasks on the assignment and metrics tables leave alone
other_vars == <<pipeline_vars, extractor_vars>>

vars == <<taxonomic_assignments, biodiversity_metrics, result,
          runs, celery_queue, previous_run, metrics_calls,
          pipeline_vars, extractor_vars>>

\* the variables of the workers
worker_vars == <<runs, celery_queue, previous_run, metrics_calls>>

NoResult ==
    [task |-> "none", sample_id |-> "none", success |-> FALSE, error |-> "",
     metrics |-> <<>>]

\* Celery workers
Workers == {"w1", "w2"}

\* a worker that runs no process_sequence_file call
IdleRun ==
    [pc |-> "idle", sample_id |-> "none", file_path |-> "none",
     count |-> 0, i |-> 0, assignments_created |-> 0, created |-> <<>>]

NoRun == [sample_id |-> "none", file_path |-> "none", created |-> <<>>]

\* a worker that runs no metrics task
IdleCall == [pc |-> "idle", sample_id |-> "none", defaults |-> <<>>]

WorkersIdle ==
    /\ runs = [w \in Workers |-> IdleRun]
    /\ celery_queue = <<>>
    /\ previous_run = NoRun
    /\ metrics_calls = [w \in Workers |-> IdleCall]

\* the AnalysisPipeline rows there are: "p1"; "p2" is the id of no row
Pipelines == {"p1"}

PipelineIds == {"p1", "p2"}

\* pipeline.samples.all()
samples(pipeline_id) == <<"s1">>

\* a row of AnalysisPipeline with the defaults of its fields: status
\* 'pending', the nullable fields None, error_message ""
NewPipeline ==
    [status |-> "pending",
     started_at |-> None,
     completed_at |-> None,
     total_runtime_minutes |-> None,
     error_message |-> "",
     total_sequences_processed |-> None,
     sequences_assigned |-> None,
     novel_taxa_discovered |-> None]

\* no run_analysis_pipeline call in progress
IdlePipelineCall ==
    [pc |-> "idle", pipeline_id |-> "none", pipeline |-> NewPipeline,
     samples |-> <<>>, total_sequences |-> 0, sequences_assigned |-> 0,
     novel_taxa |-> 0, error |-> ""]

PipelineIdle ==
    /\ analysis_pipeline = NewPipeline
    /\ pipeline_call = IdlePipelineCall
    /\ task_queue = <<>>
    /\ now = 0

\* the tar.gz files of base_dir and the .md5 file beside each
Jobs == 1 .. MaxJobs

Tar(j) == "db" \o ToString(j) \o ".tar.gz"

Md5File(j) == Tar(j) \o ".md5"

\* a job extract_all has not submitted
NoJob == [pc |-> "none", passed |-> <<>>]

\* DatabaseExtractor(base_dir, max_concurrent) over a base_dir that holds
\* the tar.gz files, each with or without its .md5 file
ExtractorConstructed ==
    /\ \E missing \in SUBSET Jobs :
           files = {Tar(j) : j \in Jobs} \cup {Md5File(j) : j \in Jobs \ missing}
    /\ jobs = [j \in Jobs |-> NoJob]
    /\ \E max_concurrent \in 1 .. MaxConcurrent :
           extractor = [pc |-> "constructed",
                        max_concurrent |-> max_concurrent,
                        total_size_freed |-> 0]
    /\ success_list = <<>>
    /\ failed_list = <<>>

\* no extractor is at work: an empty base_dir
ExtractorIdle ==
    /\ files = {}
    /\ jobs = [j \in Jobs |-> NoJob]
    /\ extractor = [pc |-> "constructed", max_concurrent |-> 2,
                    total_size_freed |-> 0]
    /\ success_list = <<>>
    /\ failed_list = <<>>

Init ==
    /\ taxonomic_assignments = <<>>
    /\ biodiversity_metrics = <<>>
    /\ result = NoResult
    /\ WorkersIdle
    /\ PipelineIdle
    /\ ExtractorIdle

\* Meta.ordering = ['-confidence_score', '-read_count']: a comes before b
Before(a, b) ==
    \/ RatLt(b.confidence_score, a.confidence_score)
    \/ a.confidence_score = b.confidence_score /\ a.read_count > b.read_count

\* the table with one more row, at its place in Meta.ordering
Insert(table, row) ==
    LET k == Cardinality({i \in DOMAIN table : Before(table[i], row)})
    IN  SubSeq(table, 1, k) \o <<row>> \o SubSeq(table, k + 1, Len(table))

\* sample.taxonomic_assignments.all()
AssignmentsOf(sample_id) ==
    SelectSeq(taxonomic_assignments, LAMBDA a : a.sample = sample_id)

\* BiodiversityMetrics rows of a sample
MetricsOf(sample_id) ==
    SelectSeq(biodiversity_metrics, LAMBDA m : m.sample = sample_id)

\* A TaxonomicAssignment row.  Columns the metrics task never reads
\* (sequence_id, sequence_data, ...) are left out.
Row(sample_id, t, reads) ==
    [sample |-> sample_id,
     species |-> TaxaRows[t].species,
     genus |-> TaxaRows[t].genus,
     phylum |-> TaxaRows[t].phylum,
     confidence_level |-> TaxaRows[t].confidence_level,
     confidence_score |-> TaxaRows[t].confidence_score,
     is_novel_taxon |-> TaxaRows[t].is_novel_taxon,
     read_count |-> reads]

\* TaxonomicAssignment.objects.create(...) / the admin's add form: one more
\* row of the sample.
CreateAssignment(sample_id, t, reads) ==
    /\ sample_id \in Sample
    /\ Len(AssignmentsOf(sample_id)) < MaxAssignments
    /\ taxonomic_assignments' =
           Insert(taxonomic_assignments, Row(sample_id, t, reads))
    /\ UNCHANGED <<biodiversity_metrics, result, worker_vars>>

\* ------------------------------------------- calculate_biodiversity_metrics
\* the guard gone: an empty queryset passes
exists_unchecked(assignments) == TRUE

\* assignments.exists()
exists(assignments) == assignments # <<>>

\* assignment.species or f"{assignment.genus}_sp" or "Unknown"
SpeciesKey(a) ==
    IF Truthy(a.species) THEN Value(a.species)
    ELSE StrOr(Format(a.genus) \o "_sp", "Unknown")

\* the dict built by the loop: key -> summed read_count
species_counts(assignments) ==
    LET n == Len(assignments)
        key == [i \in 1 .. n |-> SpeciesKey(assignments[i])]
        reads == [i \in 1 .. n |-> assignments[i].read_count]
    IN  [k \in {key[i] : i \in 1 .. n} |->
            SumOver(reads, {i \in 1 .. n : key[i] = k})]

total_reads(assignments) ==
    SumOver([i \in 1 .. Len(assignments) |-> assignments[i].read_count],
            1 .. Len(assignments))

observed_otus(counts) == Cardinality(DOMAIN counts)

\* the keys the Shannon and Simpson loops do not skip: "if count > 0"
Counted(counts) == {k \in DOMAIN counts : counts[k] > 0}

\* p = count / total_reads with total_reads = 0 raises ZeroDivisionError
RaisesZeroDivision(counts, total) == Counted(counts) # {} /\ total = 0

\* shannon_diversity -= p * np.log(p): np.log of a negative p is nan
shannon_diversity(counts, total) ==
    LET p == [k \in Counted(counts) |-> Rat(counts[k], total)]
    IN  IF Counted(counts) = {} THEN [nan |-> FALSE, terms |-> <<>>]
        ELSE IF total < 0 THEN [nan |-> TRUE, terms |-> <<>>]
        ELSE [nan |-> FALSE,
              terms |-> [q \in {p[k] : k \in Counted(counts)} |->
                            Cardinality({k \in Counted(counts) : p[k] = q})]]

\* simpson_diversity = 1 - sum of p * p
simpson_diversity(counts, total) ==
    LET squares == [k \in Counted(counts) |-> counts[k] * counts[k]]
    IN  IF Counted(counts) = {} THEN RatInt(1)
        ELSE Rat(total * total - SumOver(squares, Counted(counts)),
                 total * total)

singletons(counts) == Cardinality({k \in DOMAIN counts : counts[k] = 1})

doubletons(counts) == Cardinality({k \in DOMAIN counts : counts[k] = 2})

\* the estimate with f1*f1/f2 in place of f1*f1/(2*f2)
chao1_single_denominator(counts) ==
    IF doubletons(counts) > 0
    THEN RatAdd(RatInt(observed_otus(counts)),
                Rat(singletons(counts) * singletons(counts), doubletons(counts)))
    ELSE RatInt(observed_otus(counts))

\* the estimate with the observed count left out of the sum
chao1_correction_only(counts) ==
    IF doubletons(counts) > 0
    THEN Rat(singletons(counts) * singletons(counts), 2 * doubletons(counts))
    ELSE RatInt(observed_otus(counts))

chao1_richness(counts) ==
    IF doubletons(counts) > 0
    THEN RatAdd(RatInt(observed_otus(counts)),
                Rat(singletons(counts) * singletons(counts),
                    2 * doubletons(counts)))
    ELSE RatInt(observed_otus(counts))

protist_phylums == {"Foraminifera", "Radiolaria", "Ciliophora", "Dinoflagellata"}

metazoan_phylums == {"Nematoda", "Arthropoda", "Mollusca", "Annelida"}

cnidarian_phylums == {"Cnidaria"}

fungi_phylums == {"Ascomycota", "Basidiomycota"}

\* assignments.filter(phylum__in=phylums).aggregate(Sum('read_count')) or 0
GroupReads(assignments, phylums) ==
    LET n == Len(assignments)
    IN  SumOver([i \in 1 .. n |-> assignments[i].read_count],
                {i \in 1 .. n : assignments[i].phylum # None
                                /\ Value(assignments[i].phylum) \in phylums})

\* assignments.count()
assigned_sequences(assignments) == Len(assignments)

\* assignments.filter(is_novel_taxon=True).count()
novel_sequences(assignments) ==
    Cardinality({i \in 1 .. Len(assignments) : assignments[i].is_novel_taxon})

assignment_rate(assigned, total) ==
    IF total > 0 THEN Rat(assigned, total) ELSE RatInt(0)

\* (reads / total_reads * 100) if total_reads > 0 else 0
Percentage(reads, total) ==
    IF total > 0 THEN Rat(reads * 100, total) ELSE RatInt(0)

\* the defaults={...} of update_or_create
Defaults(assignments) ==
    LET counts == species_counts(assignments)
        total == total_reads(assignments)
    IN  [shannon_diversity |-> shannon_diversity(counts, total),
         simpson_diversity |-> simpson_diversity(counts, total),
         chao1_richness |-> chao1_richness(counts),
         observed_otus |-> observed_otus(counts),
         total_sequences |-> total,
         assigned_sequences |-> assigned_sequences(assignments),
         novel_sequences |-> novel_sequences(assignments),
         assignment_rate |-> assignment_rate(assigned_sequences(assignments), total),
         protist_percentage |->
             Percentage(GroupReads(assignments, protist_phylums), total),
         metazoan_percentage |->
             Percentage(GroupReads(assignments, metazoan_phylums), total),
         cnidarian_percentage |->
             Percentage(GroupReads(assignments, cnidarian_phylums), total),
         fungi_percentage |->
             Percentage(GroupReads(assignments, fungi_phylums), total)]

\* BiodiversityMetrics.objects.update_or_create(sample=sample, defaults=...)
update_or_create(table, sample_id, defaults) ==
    IF \E i \in DOMAIN table : table[i].sample = sample_id
    THEN [i \in DOMAIN table |->
             IF table[i].sample = sample_id
             THEN [sample |-> sample_id, fields |-> defaults]
             ELSE table[i]]
    ELSE Append(table, [sample |-> sample_id, fields |-> defaults])

Returned(task, sample_id, success, error, metrics) ==
    [task |-> task, sample_id |-> sample_id, success |-> success,
     error |-> error, metrics |-> metrics]

calculate_biodiversity_metrics(sample_id) ==
    LET assignments == AssignmentsOf(sample_id)
        task == "calculate_biodiversity_metrics"
        defaults == Defaults(assignments)
    IN  IF sample_id \notin Sample THEN
            /\ result' = Returned(task, sample_id, FALSE,
                   "Sample " \o sample_id \o " not found", <<>>)
            /\ UNCHANGED <<taxonomic_assignments, biodiversity_metrics>>
        ELSE IF ~exists(assignments) THEN
            /\ result' = Returned(task, sample_id, FALSE,
                   "No taxonomic assignments found for sample", <<>>)
            /\ UNCHANGED <<taxonomic_assignments, biodiversity_metrics>>
        ELSE IF RaisesZeroDivision(species_counts(assignments),
                                   total_reads(assignments)) THEN
            /\ result' = Returned(task, sample_id, FALSE, "division by zero", <<>>)
            /\ UNCHANGED <<taxonomic_assignments, biodiversity_metrics>>
        ELSE
            /\ biodiversity_metrics' =
                   update_or_create(biodiversity_metrics, sample_id, defaults)
            /\ result' = Returned(task, sample_id, TRUE, "",
                   [shannon_diversity |-> defaults.shannon_diversity,
                    simpson_diversity |-> defaults.simpson_diversity,
                    observed_otus |-> defaults.observed_otus,
                    total_sequences |-> defaults.total_sequences])
            /\ UNCHANGED taxonomic_assignments

\* ------------------------------------------------------ the specification
Next ==
    \/ \E s \in SampleIds, t \in DOMAIN TaxaRows, reads \in ReadCounts :
           CreateAssignment(s, t, reads) /\ UNCHANGED other_vars
    \/ \E s \in SampleIds :
           /\ calculate_biodiversity_metrics(s)
           /\ UNCHANGED <<worker_vars, other_vars>>

Spec == Init /\ [][Next]_vars

\* The metrics computation as a function of the rows it is given: every
\* table of up to MaxRows rows of one sample, in Meta.ordering, and the
\* task applied to it.
Tables ==
    LET rows == {Row(s, t, reads) :
                    s \in Sample, t \in DOMAIN TaxaRows, reads \in ReadCounts}
        lists == UNION {[1 .. n -> rows] : n \in 0 .. MaxRows}
    IN  {l \in lists : \A i, j \in DOMAIN l : i < j => ~Before(l[j], l[i])}

\* The metrics table a call may find: empty, or holding the record an
\* earlier call stored while the sample held other rows (rows are deleted
\* and edited through the admin and the /taxonomy endpoint).
EarlierMetrics ==
    {<<>>} \cup
    {<<[sample |-> s, fields |-> Defaults(<<Row(s, 1, 1)>>)]>> : s \in Sample}

InitCompute ==
    /\ taxonomic_assignments \in Tables
    /\ biodiversity_metrics \in EarlierMetrics
    /\ result = NoResult
    /\ WorkersIdle
    /\ PipelineIdle
    /\ ExtractorIdle

NextCompute ==
    \E s \in SampleIds :
        /\ calculate_biodiversity_metrics(s)
        /\ UNCHANGED <<worker_vars, other_vars>>

SpecCompute == InitCompute /\ [][NextCompute]_vars

\* ------------------------------------------------- process_sequence_file
\* sample_taxa, the taxa the simulated processing picks from
sample_taxa == <<
    [phylum |-> "Foraminifera", genus |-> "Globigerina",
     species |-> "Globigerina bulloides"],
    [phylum |-> "Radiolaria", genus |-> "Spongaster",
     species |-> "Spongaster tetras"],
    [phylum |-> "Ciliophora", genus |-> "Paramecium",
     species |-> "Paramecium aurelia"],
    [phylum |-> "Nematoda", genus |-> "Caenorhabditis",
     species |-> "Caenorhabditis elegans"] >>

\* What the random calls of one loop iteration return, four cases of them:
\* random.choice(sample_taxa), 'high' if random.random() > 0.3 else 'medium',
\* random.uniform(0.7, 0.98), random.randint(1, 50), random.random() < 0.1.
Draws == <<
    [taxon |-> 1, confidence_level |-> "high",
     confidence_score |-> Rat(95, 100), read_count |-> 1, is_novel_taxon |-> FALSE],
    [taxon |-> 2, confidence_level |-> "high",
     confidence_score |-> Rat(75, 100), read_count |-> 2, is_novel_taxon |-> TRUE],
    [taxon |-> 3, confidence_level |-> "medium",
     confidence_score |-> Rat(75, 100), read_count |-> 1, is_novel_taxon |-> FALSE],
    [taxon |-> 4, confidence_level |-> "medium",
     confidence_score |-> Rat(95, 100), read_count |-> 2, is_novel_taxon |-> TRUE] >>

\* a hit of the search tool
Hit(identity, coverage) ==
    [identity_percent |-> identity, coverage_percent |-> coverage]

\* f"/temp/{sample.sample_id}.fastq", the path run_analysis_pipeline passes
FilePath(sample_id) == "/temp/" \o sample_id \o ".fastq"

\* The file of a sample.  A file is its sequences, and a sequence is here
\* what the search tool answers for it in each database: a hit or None.
\* process_sequence_file opens no file.
SequenceFile ==
    [s \in SampleIds |->
        << [SSU_eukaryote_rRNA |-> Some(Hit(95, 90)),
            LSU_eukaryote_rRNA |-> None],
           [SSU_eukaryote_rRNA |-> None,
            LSU_eukaryote_rRNA |-> None] >>]

\* f"{i:04d}" and f"{i:03d}"
Pad(i, width) ==
    LET digits == ToString(i)
        zeros == [n \in 0 .. width |->
                     IF n = 0 THEN ""
                     ELSE IF n = 1 THEN "0"
                     ELSE IF n = 2 THEN "00"
                     ELSE IF n = 3 THEN "000" ELSE "0000"]
        missing == IF i < 10 THEN width - 1
                   ELSE IF i < 100 THEN width - 2
                   ELSE IF i < 1000 THEN width - 3 ELSE width - 4
    IN  zeros[IF missing < 0 THEN 0 ELSE missing] \o digits

\* the row TaxonomicAssignment.objects.create(...) of the loop stores
assignment(sample_id, i, draw) ==
    [sample |-> sample_id,
     sequence_id |-> "seq_" \o sample_id \o "_" \o Pad(i, 4),
     species |-> Some(sample_taxa[draw.taxon].species),
     genus |-> Some(sample_taxa[draw.taxon].genus),
     phylum |-> Some(sample_taxa[draw.taxon].phylum),
     database_source |-> "SSU_eukaryote_rRNA",
     confidence_level |-> draw.confidence_level,
     confidence_score |-> draw.confidence_score,
     identity_percent |-> None,
     is_novel_taxon |-> draw.is_novel_taxon,
     read_count |-> draw.read_count]

\* unique_together = ['sample', 'sequence_id']: the INSERT of row is refused
unique_together(table, row) ==
    \E k \in DOMAIN table :
        table[k].sample = row.sample /\ table[k].sequence_id = row.sequence_id

ProcessReturned(sample_id, file_path, success, error, assignments_created) ==
    [task |-> "process_sequence_file", sample_id |-> sample_id,
     file_path |-> file_path, success |-> success, error |-> error,
     assignments_created |-> assignments_created]

\* calls that have not returned
Running == {w \in Workers : runs[w].pc # "idle"}

\* The call begins: Sample.objects.get(id=sample_id), and the loop's range
\* is drawn.
StartProcess(w, sample_id, file_path) ==
    /\ runs[w].pc = "idle"
    /\ Len(celery_queue) + Cardinality(Running) < MaxQueued
    /\ IF sample_id \notin Sample THEN
           /\ result' = ProcessReturned(sample_id, file_path, FALSE,
                  "Sample " \o sample_id \o " not found", 0)
           /\ UNCHANGED runs
       ELSE
           /\ \E count \in 1 .. MaxCreated :
                  runs' = [runs EXCEPT ![w] =
                              [pc |-> "loop", sample_id |-> sample_id,
                               file_path |-> file_path,
                               count |-> count, i |-> 0,
                               assignments_created |-> 0, created |-> <<>>]]
           /\ UNCHANGED result
    /\ UNCHANGED <<taxonomic_assignments, biodiversity_metrics, celery_queue,
                   previous_run, metrics_calls>>

\* One iteration of the loop.  A row of the same (sample, sequence_id)
\* raises IntegrityError, which "except Exception" turns into the error
\* result; the rows created before it stay.
CreateInLoop(w, d) ==
    LET run == runs[w]
        row == assignment(run.sample_id, run.i, Draws[d])
    IN  /\ run.pc = "loop"
        /\ run.i < run.count
        /\ IF unique_together(taxonomic_assignments, row) THEN
               /\ result' = ProcessReturned(run.sample_id, run.file_path, FALSE,
                      "UNIQUE constraint failed", run.assignments_created)
               /\ runs' = [runs EXCEPT ![w] = IdleRun]
               /\ UNCHANGED taxonomic_assignments
           ELSE
               /\ taxonomic_assignments' = Insert(taxonomic_assignments, row)
               /\ runs' = [runs EXCEPT ![w] =
                              [run EXCEPT !.i = run.i + 1,
                                          !.assignments_created =
                                              run.assignments_created + 1,
                                          !.created = Append(run.created, row)]]
               /\ UNCHANGED result
        /\ UNCHANGED <<biodiversity_metrics, celery_queue, previous_run,
                       metrics_calls>>

\* After the loop: calculate_biodiversity_metrics.delay(sample_id) and the
\* success result.
FinishProcess(w) ==
    LET run == runs[w]
    IN  /\ run.pc = "loop"
        /\ run.i = run.count
        /\ celery_queue' = Append(celery_queue, run.sample_id)
        /\ result' = ProcessReturned(run.sample_id, run.file_path, TRUE, "",
               run.assignments_created)
        /\ runs' = [runs EXCEPT ![w] = IdleRun]
        /\ UNCHANGED <<taxonomic_assignments, biodiversity_metrics,
                       metrics_calls>>

\* a worker takes the queued metrics task and runs it
RunMetricsTask ==
    /\ celery_queue # <<>>
    /\ calculate_biodiversity_metrics(Head(celery_queue))
    /\ celery_queue' = Tail(celery_queue)
    /\ UNCHANGED <<runs, previous_run, metrics_calls>>

\* the admin's "delete selected" with every row of the sample ticked
delete_selected(sample_id) ==
    /\ AssignmentsOf(sample_id) # <<>>
    /\ taxonomic_assignments' =
           SelectSeq(taxonomic_assignments, LAMBDA a : a.sample # sample_id)
    /\ UNCHANGED <<biodiversity_metrics, result, worker_vars>>

\* ------------------------------------------------------ create_sample_data
\* taxa_data of the seeding script
taxa_data == <<
    [phylum |-> "Arthropoda", genus |-> "", species |-> ""],
    [phylum |-> "Chaetognatha", genus |-> "", species |-> ""],
    [phylum |-> "Cnidaria", genus |-> "Fungia", species |-> "scutaria"],
    [phylum |-> "Foraminifera", genus |-> "Planorbulina",
     species |-> "mediterranensis"],
    [phylum |-> "Radiolaria", genus |-> "Actinomma", species |-> "antarcticum"] >>

\* the row the script creates for sample number i and taxon number j
SeededAssignment(sample_id, i, j) ==
    [sample |-> sample_id,
     sequence_id |-> "SEQ_" \o Pad(i + 1, 3) \o "_" \o Pad(j + 1, 3),
     species |-> Some(taxa_data[j + 1].species),
     genus |-> Some(taxa_data[j + 1].genus),
     phylum |-> Some(taxa_data[j + 1].phylum),
     database_source |-> "SSU_eukaryote_rRNA",
     confidence_level |-> IF j < 3 THEN "high" ELSE "medium",
     confidence_score |-> Rat(85 + j * 2, 100),
     identity_percent |-> Some(Rat(955 + j * 8, 10)),
     is_novel_taxon |-> FALSE,
     read_count |-> 1]

\* the five rows of one sample, in Meta.ordering
SeededAssignments(sample_id, i) ==
    [k \in 1 .. Len(taxa_data) |->
        SeededAssignment(sample_id, i, Len(taxa_data) - k)]

\* the record BiodiversityMetrics.objects.create(...) stores for sample
\* number i: literals, not values computed from the rows
SeededMetrics(sample_id, i) ==
    [sample |-> sample_id,
     fields |-> [shannon_diversity |-> Rat(245 + i * 10, 100),
                 simpson_diversity |-> Rat(85 - i * 2, 100),
                 chao1_richness |-> Rat(452 + i * 23, 10),
                 observed_otus |-> 38 + i,
                 total_sequences |-> 10000 + i * 500,
                 assigned_sequences |-> 9200 + i * 450,
                 novel_sequences |-> 12 + i,
                 assignment_rate |-> Rat(920 + i * 5, 1000),
                 protist_percentage |-> Rat(455 + i * 12, 10),
                 metazoan_percentage |-> Rat(321 - i * 8, 10),
                 cnidarian_percentage |-> Rat(83 + i * 3, 10),
                 fungi_percentage |-> Rat(21 + i, 10)]]

\* The database before the workers start: empty, or as create_sample_data
\* leaves it ("s1" being the first sample it creates).
InitPipeline ==
    /\ \/ /\ taxonomic_assignments = <<>>
          /\ biodiversity_metrics = <<>>
       \/ /\ taxonomic_assignments = SeededAssignments("s1", 0)
          /\ biodiversity_metrics = <<SeededMetrics("s1", 0)>>
    /\ result = NoResult
    /\ WorkersIdle
    /\ PipelineIdle
    /\ ExtractorIdle

NextPipeline ==
    \/ \E w \in Workers, s \in SampleIds :
           StartProcess(w, s, FilePath(s)) /\ UNCHANGED other_vars
    \/ \E w \in Workers, d \in DOMAIN Draws :
           CreateInLoop(w, d) /\ UNCHANGED other_vars
    \/ \E w \in Workers :
           FinishProcess(w) /\ UNCHANGED <<previous_run, other_vars>>
    \/ RunMetricsTask /\ UNCHANGED other_vars
    \/ \E s \in Sample : delete_selected(s) /\ UNCHANGED other_vars

SpecPipeline == InitPipeline /\ [][NextPipeline]_vars

\* the workers on tables that only process_sequence_file has written to
SpecInterleaved == Init /\ [][NextPipeline]_vars

\* Two runs of one worker on the same sample, the rows deleted in between:
\* previous_run keeps what the run before the present one was given and
\* created.
FinishAndRecord(w) ==
    /\ FinishProcess(w)
    /\ previous_run' = [sample_id |-> runs[w].sample_id,
                        file_path |-> runs[w].file_path,
                        created |-> runs[w].created]

NextTwoRuns ==
    \/ \E s \in SampleIds :
           StartProcess("w1", s, FilePath(s)) /\ UNCHANGED other_vars
    \/ \E d \in DOMAIN Draws : CreateInLoop("w1", d) /\ UNCHANGED other_vars
    \/ FinishAndRecord("w1") /\ UNCHANGED other_vars
    \/ RunMetricsTask /\ UNCHANGED other_vars
    \/ \E s \in Sample : delete_selected(s) /\ UNCHANGED other_vars

SpecTwoRuns == Init /\ [][NextTwoRuns]_vars

\* ------------------------------- the metrics task, statement by statement
\* Two metrics tasks of one sample on two workers.  update_or_create is a
\* SELECT, then an INSERT when the SELECT found no row, else an UPDATE; an
\* INSERT the database refuses makes it SELECT again and UPDATE.

\* a ForeignKey in place of the OneToOneField: no INSERT is refused
ForeignKey(table, sample_id) == FALSE

\* sample = models.OneToOneField(Sample, ...): the column is unique, the
\* INSERT of a second row of the sample is refused
OneToOneField(table, sample_id) ==
    \E i \in DOMAIN table : table[i].sample = sample_id

\* The task up to the SELECT of update_or_create.
BeginMetrics(w, sample_id) ==
    LET assignments == AssignmentsOf(sample_id)
        task == "calculate_biodiversity_metrics"
    IN  /\ metrics_calls[w].pc = "idle"
        /\ IF sample_id \notin Sample THEN
               /\ result' = Returned(task, sample_id, FALSE,
                      "Sample " \o sample_id \o " not found", <<>>)
               /\ UNCHANGED metrics_calls
           ELSE IF ~exists(assignments) THEN
               /\ result' = Returned(task, sample_id, FALSE,
                      "No taxonomic assignments found for sample", <<>>)
               /\ UNCHANGED metrics_calls
           ELSE IF RaisesZeroDivision(species_counts(assignments),
                                      total_reads(assignments)) THEN
               /\ result' = Returned(task, sample_id, FALSE,
                      "division by zero", <<>>)
               /\ UNCHANGED metrics_calls
           ELSE
               /\ metrics_calls' = [metrics_calls EXCEPT ![w] =
                      [pc |-> IF MetricsOf(sample_id) # <<>>
                              THEN "update" ELSE "insert",
                       sample_id |-> sample_id,
                       defaults |-> Defaults(assignments)]]
               /\ UNCHANGED result
        /\ UNCHANGED <<taxonomic_assignments, biodiversity_metrics, runs,
                       celery_queue, previous_run>>

\* the success result of a call that stored defaults
Stores(w) ==
    LET call == metrics_calls[w]
    IN  /\ result' = Returned("calculate_biodiversity_metrics",
               call.sample_id, TRUE, "",
               [shannon_diversity |-> call.defaults.shannon_diversity,
                simpson_diversity |-> call.defaults.simpson_diversity,
                observed_otus |-> call.defaults.observed_otus,
                total_sequences |-> call.defaults.total_sequences])
        /\ metrics_calls' = [metrics_calls EXCEPT ![w] = IdleCall]

\* The INSERT: it adds the record, or is refused because another call has
\* added one since the SELECT.
InsertMetrics(w) ==
    LET call == metrics_calls[w]
    IN  /\ call.pc = "insert"
        /\ IF OneToOneField(biodiversity_metrics, call.sample_id) THEN
               /\ metrics_calls' = [metrics_calls EXCEPT ![w].pc = "update"]
               /\ UNCHANGED <<biodiversity_metrics, result>>
           ELSE
               /\ biodiversity_metrics' =
                      Append(biodiversity_metrics,
                             [sample |-> call.sample_id,
                              fields |-> call.defaults])
               /\ Stores(w)
        /\ UNCHANGED <<taxonomic_assignments, runs, celery_queue, previous_run>>

\* The UPDATE of the record the SELECT found.
UpdateMetrics(w) ==
    LET call == metrics_calls[w]
    IN  /\ call.pc = "update"
        /\ biodiversity_metrics' =
               [i \in DOMAIN biodiversity_metrics |->
                   IF biodiversity_metrics[i].sample = call.sample_id
                   THEN [sample |-> call.sample_id, fields |-> call.defaults]
                   ELSE biodiversity_metrics[i]]
        /\ Stores(w)
        /\ UNCHANGED <<taxonomic_assignments, runs, celery_queue, previous_run>>

\* the rows the two calls find: none, or one row of a sample
InitRace ==
    /\ taxonomic_assignments \in
           {<<>>} \cup {<<Row(s, t, reads)>> :
                           s \in Sample, t \in DOMAIN TaxaRows,
                           reads \in ReadCounts}
    /\ biodiversity_metrics \in EarlierMetrics
    /\ result = NoResult
    /\ WorkersIdle
    /\ PipelineIdle
    /\ ExtractorIdle

NextRace ==
    \/ \E w \in Workers, s \in SampleIds :
           BeginMetrics(w, s) /\ UNCHANGED other_vars
    \/ \E w \in Workers : InsertMetrics(w) /\ UNCHANGED other_vars
    \/ \E w \in Workers : UpdateMetrics(w) /\ UNCHANGED other_vars

SpecMetricsRace == InitRace /\ [][NextRace]_vars

\* ------------------------------------------ Docs/Analysis: the extractor
\* extract_all of a DatabaseExtractor: the jobs it finds go to a
\* ThreadPoolExecutor, each job runs extract_single_file step by step, and
\* the as_completed loop files each job under success or failed.  What the
\* tools answer (md5, tar, unlink) is the environment's choice.  "passed"
\* keeps, per job, the steps that went well, in the order they were made.

\* find_extraction_jobs: the tar.gz files that have their .md5 beside them
find_extraction_jobs ==
    {j \in Jobs : Tar(j) \in files /\ Md5File(j) \in files}

\* jobs a thread of the pool is working on
InPool ==
    {j \in Jobs : jobs[j].pc \in {"md5", "integrity", "extract", "verify",
                                  "delete"}}

\* extract_single_file returns: the future of the job is done
Return(j, value) == [jobs EXCEPT ![j].pc = value]

\* a step of job j went well: on to the next one
Pass(j, step, next) ==
    [jobs EXCEPT ![j] = [pc |-> next, passed |-> Append(jobs[j].passed, step)]]

\* extract_all up to the end of executor.submit: with no job it returns
\* {"success": [], "failed": []}, else every job is queued in the pool
SubmitAll ==
    /\ extractor.pc = "constructed"
    /\ IF find_extraction_jobs = {} THEN
           /\ extractor' = [extractor EXCEPT !.pc = "returned"]
           /\ UNCHANGED jobs
       ELSE
           /\ extractor' = [extractor EXCEPT !.pc = "pool"]
           /\ jobs' = [j \in Jobs |->
                          IF j \in find_extraction_jobs
                          THEN [pc |-> "queued", passed |-> <<>>]
                          ELSE jobs[j]]
    /\ success_list' = <<>>
    /\ failed_list' = <<>>
    /\ UNCHANGED files

\* a pool that starts a thread for every job submitted to it
UnboundedPool(max_workers) == TRUE

\* ThreadPoolExecutor(max_workers=self.max_concurrent): a queued job is
\* taken when fewer than max_workers threads are busy
ThreadPoolExecutor(max_workers) == Cardinality(InPool) < max_workers

\* a thread of the pool takes the job and calls extract_single_file
TakeJob(j) ==
    /\ extractor.pc = "pool"
    /\ jobs[j].pc = "queued"
    /\ ThreadPoolExecutor(extractor.max_concurrent)
    /\ jobs' = [jobs EXCEPT ![j].pc = "md5"]
    /\ UNCHANGED <<files, extractor, success_list, failed_list>>

\* step 1: the tar file exists, its MD5 can be computed and is the
\* expected one
VerifyMd5(j, actual_md5) ==
    /\ jobs[j].pc = "md5"
    /\ jobs' = IF Tar(j) \notin files THEN Return(j, "False")
               ELSE IF actual_md5 = "" THEN Return(j, "False")
               ELSE IF actual_md5 # "expected" THEN Return(j, "False")
               ELSE Pass(j, "md5", "integrity")
    /\ UNCHANGED <<files, extractor, success_list, failed_list>>

\* step 2 with its result ignored: the job goes on to the extraction
IgnoreIntegrity(j, returncode) ==
    /\ jobs[j].pc = "integrity"
    /\ jobs' = IF returncode # 0 THEN [jobs EXCEPT ![j].pc = "extract"]
               ELSE [jobs EXCEPT ![j] =
                        [pc |-> "extract",
                         passed |-> Append(jobs[j].passed, "integrity")]]
    /\ UNCHANGED <<files, extractor, success_list, failed_list>>

\* step 2: verify_extraction_integrity, tar -tzf returning 0
TestIntegrity(j, returncode) ==
    /\ jobs[j].pc = "integrity"
    /\ jobs' = IF returncode # 0 THEN Return(j, "False")
               ELSE Pass(j, "integrity", "extract")
    /\ UNCHANGED <<files, extractor, success_list, failed_list>>

\* step 3: tar -xzf; a timeout or an exception ends the job as a return
\* code other than 0 does
Extract(j, returncode) ==
    /\ jobs[j].pc = "extract"
    /\ jobs' = IF returncode # 0 THEN Return(j, "False")
               ELSE Pass(j, "extract", "verify")
    /\ UNCHANGED <<files, extractor, success_list, failed_list>>

\* step 4: the first entries of the archive are looked for in output_dir;
\* a listing that fails is a warning only
VerifyExtracted(j, listing) ==
    /\ jobs[j].pc = "verify"
    /\ jobs' = IF listing = "missing" THEN Return(j, "False")
               ELSE Pass(j, "verify", "delete")
    /\ UNCHANGED <<files, extractor, success_list, failed_list>>

\* step 5: stat, unlink of the tar file, unlink of the .md5 file if it is
\* there.  stat is outside the try block: its exception leaves
\* extract_single_file; an unlink that fails makes it return False.
Delete(j, failing) ==
    /\ jobs[j].pc = "delete"
    /\ IF failing = "stat" THEN
           /\ jobs' = Return(j, "raised")
           /\ UNCHANGED <<files, extractor>>
       ELSE IF failing = "unlink tar" THEN
           /\ jobs' = Return(j, "False")
           /\ UNCHANGED <<files, extractor>>
       ELSE IF failing = "unlink md5" /\ Md5File(j) \in files THEN
           /\ jobs' = Return(j, "False")
           /\ files' = files \ {Tar(j)}
           /\ UNCHANGED extractor
       ELSE
           /\ jobs' = Pass(j, "delete", "True")
           /\ files' = files \ {Tar(j), Md5File(j)}
           /\ extractor' = [extractor EXCEPT !.total_size_freed = @ + 1]
    /\ UNCHANGED <<success_list, failed_list>>

\* the as_completed loop gets to the job's future
Collect(j) ==
    /\ extractor.pc = "pool"
    /\ jobs[j].pc \in {"True", "False", "raised"}
    /\ IF jobs[j].pc = "True" THEN
           /\ success_list' = Append(success_list, Tar(j))
           /\ UNCHANGED failed_list
       ELSE
           /\ failed_list' = Append(failed_list, Tar(j))
           /\ UNCHANGED success_list
    /\ jobs' = [jobs EXCEPT ![j].pc = "collected " \o jobs[j].pc]
    /\ UNCHANGED <<files, extractor>>

\* every future has been gone through: extract_all returns the two lists
ReturnLists ==
    /\ extractor.pc = "pool"
    /\ \A j \in Jobs :
           jobs[j].pc \in {"none", "collected True", "collected False",
                           "collected raised"}
    /\ extractor' = [extractor EXCEPT !.pc = "returned"]
    /\ UNCHANGED <<files, jobs, success_list, failed_list>>

\* the variables of the Django application
application_vars ==
    <<taxonomic_assignments, biodiversity_metrics, result, worker_vars,
      pipeline_vars>>

InitExtractor ==
    /\ taxonomic_assignments = <<>>
    /\ biodiversity_metrics = <<>>
    /\ result = NoResult
    /\ WorkersIdle
    /\ PipelineIdle
    /\ ExtractorConstructed

NextExtractor ==
    \/ SubmitAll /\ UNCHANGED application_vars
    \/ \E j \in Jobs : TakeJob(j) /\ UNCHANGED application_vars
    \/ \E j \in Jobs, actual_md5 \in {"expected", "other", ""} :
           VerifyMd5(j, actual_md5) /\ UNCHANGED application_vars
    \/ \E j \in Jobs, returncode \in {0, 2} :
           TestIntegrity(j, returncode) /\ UNCHANGED application_vars
    \/ \E j \in Jobs, returncode \in {0, 2} :
           Extract(j, returncode) /\ UNCHANGED application_vars
    \/ \E j \in Jobs, listing \in {"complete", "missing", "failed"} :
           VerifyExtracted(j, listing) /\ UNCHANGED application_vars
    \/ \E j \in Jobs, failing \in {"nothing", "stat", "unlink tar", "unlink md5"} :
           Delete(j, failing) /\ UNCHANGED application_vars
    \/ \E j \in Jobs : Collect(j) /\ UNCHANGED application_vars
    \/ ReturnLists /\ UNCHANGED application_vars

SpecExtractor == InitExtractor /\ [][NextExtractor]_vars

\* ------------------------------------------------- run_analysis_pipeline
\* One call at a time, statement group by statement group; the tasks it
\* sends with .delay wait in task_queue until a worker takes them.

\* what the three random.randint calls of one loop iteration return:
\* randint(1000, 5000), randint(600, 3000), randint(5, 50)
PipelineDraws == <<
    [total_sequences |-> 1000, sequences_assigned |-> 600, novel_taxa |-> 5],
    [total_sequences |-> 5000, sequences_assigned |-> 3000, novel_taxa |-> 50] >>

PipelineReturned(pipeline_id, success, error, call) ==
    [task |-> "run_analysis_pipeline", pipeline_id |-> pipeline_id,
     success |-> success, error |-> error,
     total_sequences |-> call.total_sequences,
     sequences_assigned |-> call.sequences_assigned,
     novel_taxa |-> call.novel_taxa]

\* task.delay(*args)
Message(task, args) == [task |-> task, args |-> args]

\* the tables and workers of process_sequence_file
process_vars ==
    <<taxonomic_assignments, biodiversity_metrics, worker_vars>>

\* AnalysisPipeline.objects.get(id=pipeline_id); status 'running' and
\* started_at are set on the object and the object is saved
BeginPipeline(pipeline_id) ==
    /\ pipeline_call.pc = "idle"
    /\ now + 1 <= MaxTime
    /\ IF pipeline_id \notin Pipelines THEN
           /\ result' = PipelineReturned(pipeline_id, FALSE,
                  "Pipeline " \o pipeline_id \o " not found", IdlePipelineCall)
           /\ UNCHANGED pipeline_vars
       ELSE
           LET pipeline == [analysis_pipeline EXCEPT
                               !.status = "running",
                               !.started_at = Some(now)]
           IN  /\ analysis_pipeline' = pipeline
               /\ pipeline_call' = [IdlePipelineCall EXCEPT
                      !.pc = "loop",
                      !.pipeline_id = pipeline_id,
                      !.pipeline = pipeline,
                      !.samples = samples(pipeline_id)]
               /\ now' = now + 1
               /\ UNCHANGED <<result, task_queue>>
    /\ UNCHANGED <<process_vars, extractor_vars>>

\* One iteration of "for sample in pipeline.samples.all()":
\* process_sequence_file.delay(...), the sleep, the three sums.  A .delay
\* that cannot reach the broker raises, and the call goes to its
\* "except Exception".
DispatchSample(d, sent) ==
    LET call == pipeline_call
        sample_id == Head(call.samples)
    IN  /\ call.pc = "loop"
        /\ call.samples # <<>>
        /\ IF sent THEN
               /\ task_queue' = Append(task_queue,
                      Message("process_sequence_file",
                              <<sample_id, FilePath(sample_id)>>))
               /\ pipeline_call' = [call EXCEPT
                      !.samples = Tail(call.samples),
                      !.total_sequences = @ + PipelineDraws[d].total_sequences,
                      !.sequences_assigned =
                          @ + PipelineDraws[d].sequences_assigned,
                      !.novel_taxa = @ + PipelineDraws[d].novel_taxa]
           ELSE
               /\ pipeline_call' = [call EXCEPT
                      !.pc = "except", !.error = "Connection refused"]
               /\ UNCHANGED task_queue
        /\ UNCHANGED <<analysis_pipeline, now, result, process_vars,
                       extractor_vars>>

\* After the loop: status 'completed', completed_at, the runtime and the
\* sums are set on the object the call holds, the object is saved, the
\* e-mail task is sent and the success result returned.
CompletePipeline ==
    LET call == pipeline_call
        pipeline == [call.pipeline EXCEPT
                        !.status = "completed",
                        !.completed_at = Some(now),
                        !.total_runtime_minutes =
                            Some(now - Value(call.pipeline.started_at)),
                        !.total_sequences_processed = Some(call.total_sequences),
                        !.sequences_assigned = Some(call.sequences_assigned),
                        !.novel_taxa_discovered = Some(call.novel_taxa)]
    IN  /\ call.pc = "loop"
        /\ call.samples = <<>>
        /\ analysis_pipeline' = pipeline
        /\ now' = now + 1
        /\ task_queue' = Append(task_queue,
               Message("send_pipeline_completion_email", <<call.pipeline_id>>))
        /\ result' = PipelineReturned(call.pipeline_id, TRUE, "", call)
        /\ pipeline_call' = IdlePipelineCall
        /\ UNCHANGED <<process_vars, extractor_vars>>

\* "except Exception": the row is read again, marked 'failed' with the
\* message and saved; if that raises too, "except: pass" leaves the row as
\* it is.  The error result is returned either way.
FailPipeline(saved) ==
    LET call == pipeline_call
    IN  /\ call.pc = "except"
        /\ analysis_pipeline' =
               IF saved
               THEN [analysis_pipeline EXCEPT !.status = "failed",
                                              !.error_message = call.error]
               ELSE analysis_pipeline
        /\ result' = PipelineReturned(call.pipeline_id, FALSE, call.error,
               IdlePipelineCall)
        /\ pipeline_call' = IdlePipelineCall
        /\ UNCHANGED <<task_queue, now, process_vars, extractor_vars>>

\* the admin's change form of the pipeline saved with status 'cancelled'
cancel ==
    /\ analysis_pipeline.status \in {"pending", "running"}
    /\ analysis_pipeline' = [analysis_pipeline EXCEPT !.status = "cancelled"]
    /\ UNCHANGED <<pipeline_call, task_queue, now, result, process_vars,
                   extractor_vars>>

\* a worker takes the process_sequence_file task at the head of the queue
TakeProcessTask(w) ==
    /\ task_queue # <<>>
    /\ Head(task_queue).task = "process_sequence_file"
    /\ StartProcess(w, Head(task_queue).args[1], Head(task_queue).args[2])
    /\ task_queue' = Tail(task_queue)
    /\ UNCHANGED <<analysis_pipeline, pipeline_call, now, extractor_vars>>

\* a worker takes the e-mail task: it reads the row and sends the mail
send_pipeline_completion_email ==
    /\ task_queue # <<>>
    /\ Head(task_queue).task = "send_pipeline_completion_email"
    /\ result' = [task |-> "send_pipeline_completion_email",
                  pipeline_id |-> Head(task_queue).args[1],
                  success |-> TRUE, error |-> "", email_sent |-> TRUE]
    /\ task_queue' = Tail(task_queue)
    /\ UNCHANGED <<analysis_pipeline, pipeline_call, now, process_vars,
                   extractor_vars>>

NextAnalysis ==
    \/ \E p \in PipelineIds : BeginPipeline(p)
    \/ \E d \in DOMAIN PipelineDraws, sent \in BOOLEAN : DispatchSample(d, sent)
    \/ CompletePipeline
    \/ \E saved \in BOOLEAN : FailPipeline(saved)
    \/ cancel
    \/ \E w \in Workers : TakeProcessTask(w)
    \/ \E w \in Workers, d \in DOMAIN Draws :
           CreateInLoop(w, d) /\ UNCHANGED other_vars
    \/ \E w \in Workers :
           FinishProcess(w) /\ UNCHANGED <<previous_run, other_vars>>
    \/ RunMetricsTask /\ UNCHANGED other_vars
    \/ send_pipeline_completion_email

SpecAnalysis == Init /\ [][NextAnalysis]_vars

\* ================================================================ claims
\* What the claims say is computed here from the rows themselves, apart
\* from the operators of the task above.
Calc == "calculate_biodiversity_metrics"

\* the stored metrics of a sample that has a record
Stored(sample_id) == MetricsOf(sample_id)[1].fields

\* sum of read_count over the rows that satisfy P
ReadsWhere(assignments, P(_)) ==
    SumOver([i \in 1 .. Len(assignments) |-> assignments[i].read_count],
            {i \in 1 .. Len(assignments) : P(assignments[i])})

\* the species groups as the task forms them, and the reads of one
Groups(assignments) ==
    {SpeciesKey(assignments[i]) : i \in 1 .. Len(assignments)}

GroupTotal(assignments, k) ==
    ReadsWhere(assignments, LAMBDA a : SpeciesKey(a) = k)

GroupsWithTotal(assignments, n) ==
    Cardinality({k \in Groups(assignments) : GroupTotal(assignments, k) = n})

\* one group holds total_reads and every other group holds none
OneGroupHoldsAll(assignments) ==
    \E k \in Groups(assignments) :
        /\ GroupTotal(assignments, k) = ReadsWhere(assignments, LAMBDA a : TRUE)
        /\ \A j \in Groups(assignments) \ {k} : GroupTotal(assignments, j) = 0

\* every row carries a read_count of at least 1
ReadsAtLeastOne(assignments) ==
    \A i \in 1 .. Len(assignments) : assignments[i].read_count >= 1

\* a call of the task on an existing sample that holds rows and succeeds
Computes(sample_id) ==
    /\ calculate_biodiversity_metrics(sample_id)
    /\ AssignmentsOf(sample_id) # <<>>
    /\ result'.success

\* ---------------------------------------------------------------- C1
\* C1: a call for a sample without assignments returns the empty-set error
\* and leaves the BiodiversityMetrics table as it was: no record is added
\* and the record of an earlier call is not rewritten.
C1_EmptySetPersistsNothing ==
    [][\A s \in Sample :
          (calculate_biodiversity_metrics(s) /\ AssignmentsOf(s) = <<>>)
          => /\ ~result'.success
             /\ result'.error = "No taxonomic assignments found for sample"
             /\ biodiversity_metrics' = biodiversity_metrics]_vars

C1_Witness ==
    /\ result.task = Calc
    /\ result.sample_id \in Sample
    /\ result.error = "No taxonomic assignments found for sample"
    /\ AssignmentsOf(result.sample_id) = <<>>
    /\ MetricsOf(result.sample_id) # <<>>

\* ---------------------------------------------------------------- C2
\* C2: with f1 (f2) the number of species groups whose reads sum to exactly
\* 1 (2), the stored chao1_richness is observed_otus + f1*f1/(2*f2) when
\* f2 > 0 and observed_otus when f2 = 0.
C2_Chao1Formula ==
    [][\A s \in Sample :
          Computes(s) =>
          LET as == AssignmentsOf(s)
              f1 == GroupsWithTotal(as, 1)
              f2 == GroupsWithTotal(as, 2)
              otus == Stored(s)'.observed_otus
              chao1 == Stored(s)'.chao1_richness
          IN  /\ otus = Cardinality(Groups(as))
              /\ f2 > 0 => chao1.num * 2 * f2 = (otus * 2 * f2 + f1 * f1) * chao1.den
              /\ f2 = 0 => chao1 = RatInt(otus)]_vars

\* counts {A:1, B:1, C:2}: observed_otus 3, Chao1 5
C2_Witness ==
    /\ result.task = Calc /\ result.success
    /\ LET as == AssignmentsOf(result.sample_id)
       IN  /\ Cardinality(Groups(as)) = 3
           /\ GroupsWithTotal(as, 1) = 2
           /\ GroupsWithTotal(as, 2) = 1
    /\ Stored(result.sample_id).observed_otus = 3
    /\ Stored(result.sample_id).total_sequences = 4
    /\ Stored(result.sample_id).chao1_richness = RatInt(5)

\* ---------------------------------------------------------------- C3
\* the key as the claim has it: species, else "{genus}_sp", else "Unknown"
C3_Key(a) ==
    IF Truthy(a.species) THEN Value(a.species)
    ELSE IF Truthy(a.genus) THEN Value(a.genus) \o "_sp"
    ELSE "Unknown"

\* C3: rows are grouped by species, else "{genus}_sp", else "Unknown", so
\* observed_otus is the number of distinct such keys and the rows with
\* neither species nor genus form the one group "Unknown".  Stated for
\* rows whose read_count is at least 1.
C3_GroupingKey ==
    [][\A s \in Sample :
          (Computes(s) /\ ReadsAtLeastOne(AssignmentsOf(s))) =>
          LET as == AssignmentsOf(s)
          IN  /\ \A i \in 1 .. Len(as) : SpeciesKey(as[i]) = C3_Key(as[i])
              /\ Stored(s)'.observed_otus =
                     Cardinality({C3_Key(as[i]) : i \in 1 .. Len(as)})]_vars

\* ---------------------------------------------------------------- C4
\* C4: assigned_sequences counts the rows whose confidence_level is not
\* 'uncertain', and assignment_rate is that count over the number of rows.
\* Stated for rows whose read_count is at least 1.
C4_AssignmentRate ==
    [][\A s \in Sample :
          (Computes(s) /\ ReadsAtLeastOne(AssignmentsOf(s))) =>
          LET as == AssignmentsOf(s)
              assigned == Cardinality({i \in 1 .. Len(as) :
                              as[i].confidence_level # "uncertain"})
          IN  /\ Stored(s)'.assigned_sequences = assigned
              /\ Stored(s)'.assignment_rate = Rat(assigned, Len(as))]_vars

\* ---------------------------------------------------------------- C5
\* C5: for a sample that holds rows, whatever their read_count, the call
\* raises nowhere and yields no NaN: it stores a metrics record, and with
\* total_reads = 0 every quotient in it is 0.
C5_DivisionsGuarded ==
    [][\A s \in Sample :
          (calculate_biodiversity_metrics(s) /\ AssignmentsOf(s) # <<>>)
          => /\ result'.success
             /\ MetricsOf(s)' # <<>>
             /\ ~Stored(s)'.shannon_diversity.nan
             /\ Stored(s)'.total_sequences = 0
                => /\ Stored(s)'.assignment_rate = RatInt(0)
                   /\ Stored(s)'.protist_percentage = RatInt(0)
                   /\ Stored(s)'.metazoan_percentage = RatInt(0)
                   /\ Stored(s)'.cnidarian_percentage = RatInt(0)
                   /\ Stored(s)'.fungi_percentage = RatInt(0)]_vars

\* ---------------------------------------------------------------- C6
\* C6: the stored simpson_diversity lies in [0, 1), and is 0 when one
\* species group holds all reads.  Stated for rows whose read_count is not
\* negative.
C6_SimpsonRange ==
    [][\A s \in Sample :
          (Computes(s) /\ \A i \in 1 .. Len(AssignmentsOf(s)) :
                              AssignmentsOf(s)[i].read_count >= 0)
          => LET d == Stored(s)'.simpson_diversity
             IN  /\ RatLe(RatInt(0), d)
                 /\ RatLt(d, RatInt(1))
                 /\ OneGroupHoldsAll(AssignmentsOf(s)) => d = RatInt(0)]_vars

\* ---------------------------------------------------------------- C7
RECURSIVE Pow(_, _)
Pow(b, e) == IF e = 0 THEN 1 ELSE b * Pow(b, e - 1)

RECURSIVE ProdOver(_, _)
ProdOver(f, S) ==
    IF S = {} THEN 1
    ELSE LET x == CHOOSE y \in S : TRUE IN f[x] * ProdOver(f, S \ {x})

\* With H = -SUM n*p*ln(p) over the terms p (n times each) and every p a
\* multiple of 1/total:  exp(total * H) = ShannonNum / ShannonDen.
ShannonExp(terms, total, p) == terms[p] * p.num * (total \div p.den)

ShannonNum(terms, total) ==
    ProdOver([p \in DOMAIN terms |-> Pow(p.den, ShannonExp(terms, total, p))],
             DOMAIN terms)

ShannonDen(terms, total) ==
    ProdOver([p \in DOMAIN terms |-> Pow(p.num, ShannonExp(terms, total, p))],
             DOMAIN terms)

\* C7: the stored shannon_diversity is 0 exactly when one species group
\* holds all reads, is positive when two or more groups hold reads, and is
\* at most ln(observed_otus), its value at perfect evenness.
C7_ShannonZeroIffOneGroup ==
    [][\A s \in Sample :
          Computes(s) =>
          LET as == AssignmentsOf(s)
              m == Stored(s)'
              h == m.shannon_diversity
              num == ShannonNum(h.terms, m.total_sequences)
              den == ShannonDen(h.terms, m.total_sequences)
              positive == {k \in Groups(as) : GroupTotal(as, k) > 0}
          IN  /\ ~h.nan
              /\ (num = den) <=> OneGroupHoldsAll(as)
              /\ Cardinality(positive) >= 2 => num > den
              /\ m.total_sequences > 0
                 => num <= den * Pow(m.observed_otus, m.total_sequences)]_vars

\* ---------------------------------------------------------------- C8
\* C8: every stored chao1_richness is at least the stored observed_otus.
C8_Chao1AtLeastObserved ==
    \A i \in DOMAIN biodiversity_metrics :
        LET m == biodiversity_metrics[i].fields
        IN  RatLe(RatInt(m.observed_otus), m.chao1_richness)

\* a record whose estimate lies strictly above the observed count
C8_Witness ==
    /\ result.task = Calc /\ result.success
    /\ GroupsWithTotal(AssignmentsOf(result.sample_id), 1) >= 1
    /\ GroupsWithTotal(AssignmentsOf(result.sample_id), 2) >= 1
    /\ RatLt(RatInt(Stored(result.sample_id).observed_otus),
             Stored(result.sample_id).chao1_richness)

\* ---------------------------------------------------------------- C9
\* C9: the proportions that entered the Shannon and Simpson sums of a
\* stored record add up to 1: the counts summed over add up to
\* total_reads.
C9_ProportionsSumToOne ==
    \A i \in DOMAIN biodiversity_metrics :
        LET m == biodiversity_metrics[i].fields
            h == m.shannon_diversity
            counted == [p \in DOMAIN h.terms |->
                           h.terms[p] * p.num * (m.total_sequences \div p.den)]
        IN  /\ ~h.nan
            /\ SumOver(counted, DOMAIN h.terms) = m.total_sequences

\* ---------------------------------------------------------------- C10
InPhylums(phylums, a) == a.phylum # None /\ Value(a.phylum) \in phylums

\* C10: each stored group percentage is 100 * (reads of the rows whose
\* phylum is in the group's set) / total_reads, lies in [0, 100], and the
\* four add up to at most 100.
C10_GroupPercentages ==
    [][\A s \in Sample :
          Computes(s) =>
          LET as == AssignmentsOf(s)
              m == Stored(s)'
              total == ReadsWhere(as, LAMBDA a : TRUE)
              Is(pct, phylums) ==
                  /\ pct.num * total =
                         100 * ReadsWhere(as, LAMBDA a : InPhylums(phylums, a)) * pct.den
                  /\ RatLe(RatInt(0), pct) /\ RatLe(pct, RatInt(100))
          IN  /\ Is(m.protist_percentage, protist_phylums)
              /\ Is(m.metazoan_percentage, metazoan_phylums)
              /\ Is(m.cnidarian_percentage, cnidarian_phylums)
              /\ Is(m.fungi_percentage, fungi_phylums)
              /\ RatLe(RatAdd(RatAdd(m.protist_percentage, m.metazoan_percentage),
                              RatAdd(m.cnidarian_percentage, m.fungi_percentage)),
                       RatInt(100))]_vars

\* ---------------------------------------------------------------- C11
\* a recomputation of the sample's record is on its way: the metrics task
\* is queued, or a process_sequence_file call that queues it is running
RecomputePending(sample_id) ==
    \/ \E k \in DOMAIN celery_queue : celery_queue[k] = sample_id
    \/ \E w \in Workers : runs[w].pc = "loop" /\ runs[w].sample_id = sample_id

\* C11: the BiodiversityMetrics record of a sample is a cache of the metrics
\* of its assignment set: a record that differs from the metrics computed
\* from the current set exists only while its recomputation is on its way,
\* and no writer stores values that were not derived from the set.
C11_MetricsIsCache ==
    \A s \in Sample :
        MetricsOf(s) # <<>> =>
            \/ Stored(s) = Defaults(AssignmentsOf(s))
            \/ RecomputePending(s)

\* ---------------------------------------------------------------- C12
\* C12: in every reachable state each sample has at most one
\* BiodiversityMetrics record, whether the calls of the metrics task for it
\* follow one another or run at the same time.
C12_OneRecordPerSample ==
    \A s \in SampleIds : Len(MetricsOf(s)) <= 1

\* a call whose SELECT found no record is about to INSERT while the record
\* of a call that ran beside it is already there
C12_Witness ==
    \E w \in Workers :
        /\ metrics_calls[w].pc = "insert"
        /\ Len(MetricsOf(metrics_calls[w].sample_id)) = 1

\* ---------------------------------------------------------------- C13
\* the loop of worker w reaches a sequence_id the sample already has a row of
CreatesAgain(w, d) ==
    /\ CreateInLoop(w, d)
    /\ unique_together(taxonomic_assignments,
                       assignment(runs[w].sample_id, runs[w].i, Draws[d]))

\* C13: a run over a sample whose sequences already have assignments
\* goes on at a sequence_id that has a row: the new row takes the place of
\* the prior one, the number of rows of the sample stays, and the call does
\* not end in an error.
C13_RerunReplaces ==
    [][\A w \in Workers, d \in DOMAIN Draws :
          CreatesAgain(w, d) =>
          LET s == runs[w].sample_id
              row == assignment(s, runs[w].i, Draws[d])
          IN  /\ runs'[w].pc = "loop"
              /\ result' = result
              /\ \E k \in DOMAIN taxonomic_assignments' :
                     taxonomic_assignments'[k] = row
              /\ Len(AssignmentsOf(s)') = Len(AssignmentsOf(s))]_vars

\* ---------------------------------------------------------------- C14
\* worker w ends a run on the sample and the file of the run before it
RunsAgain(w) ==
    /\ FinishAndRecord(w)
    /\ previous_run.sample_id = runs[w].sample_id
    /\ previous_run.file_path = runs[w].file_path

\* C14: classification is deterministic: a run on the sample and the
\* sequences of the run before it creates the same assignments, field for
\* field.
C14_Deterministic ==
    [][\A w \in Workers :
          RunsAgain(w) => runs[w].created = previous_run.created]_vars

\* ---------------------------------------------------------------- C15
\* C15: a run that succeeds has persisted one assignment per sequence of
\* the sample's file, and the assignments_created it reports is the number
\* of those sequences.
C15_OnePerSequence ==
    [][\A w \in Workers :
          FinishProcess(w) =>
          /\ result'.assignments_created = Len(SequenceFile[runs[w].sample_id])
          /\ Len(runs[w].created) = Len(SequenceFile[runs[w].sample_id])]_vars

\* ---------------------------------------------------------------- C16
\* the tier of a score under the default thresholds
C16_Tier(score) ==
    IF RatLe(Rat(90, 100), score) THEN "high"
    ELSE IF RatLe(Rat(70, 100), score) THEN "medium"
    ELSE IF RatLe(Rat(50, 100), score) THEN "low"
    ELSE "uncertain"

\* C16: every persisted assignment carries the confidence_level that is the
\* tier of its confidence_score (>= 0.90 high, >= 0.70 medium, >= 0.50 low,
\* else uncertain), and a confidence_score in [0, 1].
C16_LevelIsTierOfScore ==
    \A k \in DOMAIN taxonomic_assignments :
        LET a == taxonomic_assignments[k]
        IN  /\ a.confidence_level = C16_Tier(a.confidence_score)
            /\ RatLe(RatInt(0), a.confidence_score)
            /\ RatLe(a.confidence_score, RatInt(1))

\* ---------------------------------------------------------------- C17
\* the hits the search tool gives for a sequence, over all databases
HitsOf(sequence) ==
    {Value(sequence[db]) : db \in {d \in DOMAIN sequence : sequence[d] # None}}

\* the hit kept across the databases: highest identity, then coverage
BestHit(sequence) ==
    CHOOSE h \in HitsOf(sequence) :
        \A g \in HitsOf(sequence) :
            \/ h.identity_percent > g.identity_percent
            \/ /\ h.identity_percent = g.identity_percent
               /\ h.coverage_percent >= g.coverage_percent

\* novel under the default threshold: no hit, or best identity below 80
IsNovel(sequence) ==
    HitsOf(sequence) = {} \/ BestHit(sequence).identity_percent < 80

\* the sequences of the file of run w that have a row of the run
Classified(w) ==
    IF runs[w].pc = "idle" THEN {}
    ELSE DOMAIN runs[w].created \cap DOMAIN SequenceFile[runs[w].sample_id]

\* C17: the is_novel_taxon of the assignment a run creates for a sequence is
\* true exactly when no database gave a hit for the sequence or its best
\* hit has identity_percent below 80.
C17_NovelFlag ==
    \A w \in Workers : \A k \in Classified(w) :
        runs[w].created[k].is_novel_taxon
            <=> IsNovel(SequenceFile[runs[w].sample_id][k])

\* ---------------------------------------------------------------- C18
\* C18: when a run has succeeded, every sequence of the file without a hit
\* in any database has its assignment, with confidence_level uncertain,
\* confidence_score 0.0, is_novel_taxon true and database_source "none".
C18_NoHitAssignment ==
    previous_run # NoRun =>
        \A k \in DOMAIN SequenceFile[previous_run.sample_id] :
            HitsOf(SequenceFile[previous_run.sample_id][k]) = {} =>
                /\ k \in DOMAIN previous_run.created
                /\ previous_run.created[k].confidence_level = "uncertain"
                /\ previous_run.created[k].confidence_score = RatInt(0)
                /\ previous_run.created[k].is_novel_taxon
                /\ previous_run.created[k].database_source = "none"

\* ---------------------------------------------------------------- C19
\* the databases in the order they are tried
CascadeOrder == <<"SSU_eukaryote_rRNA", "LSU_eukaryote_rRNA">>

\* score of a hit: identity/100 * min(1, coverage/70)
HitScore(h) ==
    IF h.coverage_percent >= 70 THEN Rat(h.identity_percent, 100)
    ELSE Rat(h.identity_percent * h.coverage_percent, 100 * 70)

\* the hit of stage i is at or above the acceptance threshold 0.70
Accepts(sequence, i) ==
    /\ sequence[CascadeOrder[i]] # None
    /\ RatLe(Rat(70, 100), HitScore(Value(sequence[CascadeOrder[i]])))

\* C19: the cascade of a sequence stops at the first database whose hit
\* scores at least 0.70, so the assignment a run creates for the sequence
\* names that database, carries that hit's score and its tier, and is
\* novel only if the hit's identity is below 80: a 95% / 90% hit in the first
\* database gives database 1, level high, not novel.
C19_AcceptedAtFirstGoodHit ==
    \A w \in Workers : \A k \in Classified(w) :
        LET sequence == SequenceFile[runs[w].sample_id][k]
            a == runs[w].created[k]
        IN  \A i \in DOMAIN CascadeOrder :
                (Accepts(sequence, i) /\ \A j \in 1 .. i - 1 : ~Accepts(sequence, j))
                => LET h == Value(sequence[CascadeOrder[i]])
                   IN  /\ a.database_source = CascadeOrder[i]
                       /\ a.confidence_score = HitScore(h)
                       /\ a.confidence_level = C16_Tier(HitScore(h))
                       /\ a.is_novel_taxon <=> h.identity_percent < 80

\* ---------------------------------------------------------------- C20
\* C20: cascade monotonicity: for the same sequence and the same answers
\* of the search tool, the run over the longer list of databases gives no
\* lower confidence_score than the run over the shorter list before it.
C20_CascadeMonotone ==
    [][\A w \in Workers :
          RunsAgain(w) =>
          \A k \in DOMAIN runs[w].created \cap DOMAIN previous_run.created :
              RatLe(previous_run.created[k].confidence_score,
                    runs[w].created[k].confidence_score)]_vars

\* ---------------------------------------------------------------- C21
\* the sequence_id the loop gives the k-th sequence of a sample's file
SequenceId(sample_id, k) == "seq_" \o sample_id \o "_" \o Pad(k - 1, 4)

\* the rows a run created for the k-th sequence of its sample's file
EmittedFor(run, k) ==
    {j \in DOMAIN run.created :
        run.created[j].sequence_id = SequenceId(run.sample_id, k)}

\* the stages the cascade of a sequence goes through, in list order: it
\* stops behind the first database that accepts, or behind the last one
Searched(sequence) ==
    LET accepting == {i \in DOMAIN CascadeOrder : Accepts(sequence, i)}
    IN  IF accepting = {} THEN DOMAIN CascadeOrder
        ELSE 1 .. (CHOOSE i \in accepting : \A j \in accepting : i <= j)

\* where the cascade of a sequence ends
Terminal(sequence) ==
    IF \E i \in DOMAIN CascadeOrder : Accepts(sequence, i)
    THEN "ACCEPTED" ELSE "EXHAUSTED"

\* C21: the cascade of every sequence of the file ends, ACCEPTED or
\* EXHAUSTED, and in both cases the run that has succeeded emitted exactly
\* one assignment for the sequence: the one of an ACCEPTED sequence names
\* the last database searched, the one of an EXHAUSTED sequence names no
\* database that gave no hit.
C21_CascadeEmitsOne ==
    previous_run # NoRun =>
        \A k \in DOMAIN SequenceFile[previous_run.sample_id] :
            LET sequence == SequenceFile[previous_run.sample_id][k]
                last == CHOOSE i \in Searched(sequence) :
                            \A j \in Searched(sequence) : j <= i
            IN  /\ Cardinality(EmittedFor(previous_run, k)) = 1
                /\ \A j \in EmittedFor(previous_run, k) :
                       IF Terminal(sequence) = "ACCEPTED"
                       THEN previous_run.created[j].database_source
                                = CascadeOrder[last]
                       ELSE \A i \in DOMAIN CascadeOrder :
                                previous_run.created[j].database_source
                                    = CascadeOrder[i]
                                => sequence[CascadeOrder[i]] # None

Listed(list) == {list[k] : k \in DOMAIN list}

\* how often a name is in a list
TimesListed(list, name) == Cardinality({k \in DOMAIN list : list[k] = name})

\* job j passed the MD5 comparison, then the integrity test, then the
\* extraction
VerifiedInOrder(j) ==
    /\ Len(jobs[j].passed) >= 3
    /\ SubSeq(jobs[j].passed, 1, 3) = <<"md5", "integrity", "extract">>

\* C25: a tar.gz file, and the .md5 of a job, is gone only after the job's
\* MD5 matched, its integrity test passed and its extraction returned 0,
\* in this order; a job that one of these steps failed has its tar file in
\* place and is filed under failed; no job is in both lists or twice in
\* one, and when extract_all returns every job is in one of them.
C25_DeleteAfterVerify ==
    \A j \in Jobs :
        /\ Tar(j) \notin files => VerifiedInOrder(j)
        /\ (jobs[j].pc # "none" /\ Md5File(j) \notin files) => VerifiedInOrder(j)
        /\ (jobs[j].pc \in {"False", "collected False"} /\ ~VerifiedInOrder(j))
           => Tar(j) \in files
        /\ (jobs[j].pc = "collected False" /\ ~VerifiedInOrder(j))
           => Tar(j) \in Listed(failed_list)
        /\ TimesListed(success_list, Tar(j)) + TimesListed(failed_list, Tar(j))
               <= 1
        /\ (extractor.pc = "returned" /\ jobs[j].pc # "none")
           => TimesListed(success_list, Tar(j))
                  + TimesListed(failed_list, Tar(j)) = 1

\* extract_all has returned: one job's files are deleted and the job is in
\* the success list, another failed its integrity test and is in the
\* failed list, its tar file in place
C25_Witness ==
    /\ extractor.pc = "returned"
    /\ \E j, k \in Jobs :
           /\ Tar(j) \notin files /\ Md5File(j) \notin files
           /\ Tar(j) \in Listed(success_list)
           /\ jobs[k].passed = <<"md5">>
           /\ Tar(k) \in Listed(failed_list)
           /\ Tar(k) \in files

\* ---------------------------------------------------------------- C23
\* the process_sequence_file tasks that wait in the queue
ProcessTasksQueued ==
    Cardinality({k \in DOMAIN task_queue :
                    task_queue[k].task = "process_sequence_file"})

\* C23: cancellation is cooperative: while the pipeline is 'cancelled' no
\* new per-sample task is sent for it and no worker starts on one of its
\* samples; the calls in progress may go on and finish.
C23_NothingStartsAfterCancel ==
    [][analysis_pipeline.status = "cancelled" =>
          /\ ProcessTasksQueued' <= ProcessTasksQueued
          /\ \A w \in Workers : runs[w].pc = "idle" => runs'[w].pc = "idle"]_vars

\* ---------------------------------------------------------------- C27
\* C27: while the pipeline is 'completed', every process_sequence_file task
\* its run sent has finished: none waits in the queue, none is running,
\* each sample of the pipeline has its assignments, and the total the
\* pipeline reports is the number of assignments those tasks created.
C27_CompletedAfterTasks ==
    analysis_pipeline.status = "completed" =>
        /\ ProcessTasksQueued = 0
        /\ Running = {}
        /\ \A k \in DOMAIN samples("p1") :
               AssignmentsOf(samples("p1")[k]) # <<>>
        /\ analysis_pipeline.total_sequences_processed =
               Some(SumOver([k \in DOMAIN samples("p1") |->
                                Len(AssignmentsOf(samples("p1")[k]))],
                            DOMAIN samples("p1")))

\* ---------------------------------------------------------------- C28
\* a call of run_analysis_pipeline for an existing pipeline returns
PipelineReturns ==
    /\ pipeline_call.pc # "idle"
    /\ pipeline_call'.pc = "idle"

\* C28: when a call for an existing pipeline returns, the pipeline is
\* 'completed', with started_at and completed_at set, started_at <=
\* completed_at and the success result returned, or it is 'failed', with
\* error_message set and an error result returned; it is not 'running'.
C28_ReturnsCompletedOrFailed ==
    [][PipelineReturns =>
          LET pipeline == analysis_pipeline'
          IN  \/ /\ pipeline.status = "completed"
                 /\ pipeline.started_at # None
                 /\ pipeline.completed_at # None
                 /\ Value(pipeline.started_at) <= Value(pipeline.completed_at)
                 /\ result'.task = "run_analysis_pipeline"
                 /\ result'.success
              \/ /\ pipeline.status = "failed"
                 /\ pipeline.error_message # ""
                 /\ result'.task = "run_analysis_pipeline"
                 /\ ~result'.success
                 /\ result'.error # ""]_vars

\* ---------------------------------------------------------------- C29
\* a statement of run_analysis_pipeline was executed
PipelineStep == pipeline_call' # pipeline_call

\* C29: the steps of run_analysis_pipeline move the status along
\* pending -> running -> completed or failed only: a status 'completed',
\* 'failed' or 'cancelled' is not changed by them, neither by the save at
\* the end of a run that was cancelled meanwhile nor by a new call for a
\* pipeline that has finished.
C29_StatusMovesForward ==
    [][PipelineStep =>
          \/ analysis_pipeline'.status = analysis_pipeline.status
          \/ /\ analysis_pipeline.status = "pending"
             /\ analysis_pipeline'.status = "running"
          \/ /\ analysis_pipeline.status = "running"
             /\ analysis_pipeline'.status \in {"completed", "failed"}]_vars

\* ---------------------------------------------------------------- C26
\* no two rows of the table share (sample, sequence_id)
NoDuplicates ==
    \A j, k \in DOMAIN taxonomic_assignments :
        (/\ taxonomic_assignments[j].sample = taxonomic_assignments[k].sample
         /\ taxonomic_assignments[j].sequence_id
                = taxonomic_assignments[k].sequence_id)
        => j = k

\* the run of worker w adds a row to the table
Writes(w) ==
    /\ \E d \in DOMAIN Draws : CreateInLoop(w, d)
    /\ taxonomic_assignments' # taxonomic_assignments

\* C26: whatever the interleaving of the runs on a sample, no two rows share
\* (sample, sequence_id), and the rows the sample holds were written by
\* one run: a run adds a row only to rows that it wrote itself.
C26_SingleWriter ==
    [][/\ NoDuplicates'
       /\ \A w \in Workers :
              Writes(w) =>
              \A k \in DOMAIN AssignmentsOf(runs[w].sample_id) :
                  \E j \in DOMAIN runs[w].created :
                      runs[w].created[j] = AssignmentsOf(runs[w].sample_id)[k]]_vars

\* ---------------------------------------------------------------- C30
\* the call of worker w returns its error result
ReturnsError(w) ==
    /\ \E d \in DOMAIN Draws : CreateInLoop(w, d)
    /\ runs'[w].pc = "idle"

\* C30: a call is all or nothing: the call that returns an error has left
\* no row of its own in the table and has queued no metrics task; the call
\* that returns success has created assignments_created rows and queued
\* one metrics task.
C30_AllOrNothing ==
    [][\A w \in Workers :
          /\ ReturnsError(w) =>
                 /\ \A j \in DOMAIN runs[w].created :
                        \A k \in DOMAIN taxonomic_assignments' :
                            taxonomic_assignments'[k] # runs[w].created[j]
                 /\ celery_queue' = celery_queue
          /\ FinishProcess(w) =>
                 /\ result'.assignments_created = Len(runs[w].created)
                 /\ celery_queue' = Append(celery_queue, runs[w].sample_id)]_vars

====
